---- MODULE Spec2Model ----
(***************************************************************************)
(* Text-similarity service of ERA-04 (Assign-02/app.py, Assign-03/app.py). *)
(* A text is a sequence of characters, each its Unicode code point (97 is  *)
(* "a", 66 "B", 49 "1", 32 the space).  The character tables are those of  *)
(* Unicode 14.0.0, the database of CPython 3.11.  A float is a rational    *)
(* [num, den] (den > 0): every float the metrics produce is the correctly  *)
(* rounded quotient of two small integers, so order, equality with 0, 1    *)
(* and 100 and symmetry are those of the rational.                         *)
(* An oracle reply text is a sequence of lexemes (braces, colon, comma, a  *)
(* number, string literals, a prose word); find/rfind, slicing and         *)
(* json.loads work over that sequence.                                     *)
(* cosine_similarity is kept in exact form: the sums from which the       *)
(* TF-IDF cosine is computed (see cosine_sim).                             *)
(***************************************************************************)
EXTENDS Integers, Sequences, FiniteSets, TLC

VARIABLES pc, GEMINI_API_KEY, data, text1, text2, words1, words2,
          shared_words, unique1, unique2, similarities,
          response_text, gemini_analysis, improvement_suggestions,
          response, requests, metricCalls

vars == <<pc, GEMINI_API_KEY, data, text1, text2, words1, words2,
          shared_words, unique1, unique2, similarities,
          response_text, gemini_analysis, improvement_suggestions,
          response, requests, metricCalls>>

\* ---------------------------------------------------------------- bounds
MaxTextLen == 3
MaxReplyLen == 5

\* ------------------------------------------------------------ characters
LowerLetters == 97..122
UpperLetters == 65..90
\* the characters str.strip(), str.split() and the regex class \s treat as
\* whitespace (str.isspace)
Whitespace ==
    {9, 10, 11, 12, 13, 28, 29, 30, 31, 32, 133, 160, 5760} \cup (8192..8202)
       \cup {8232, 8233, 8239, 8287, 12288}
LettersAndWhitespace == LowerLetters \cup Whitespace

\* str.lower() outside ASCII, one character to one character: <<lo, hi,
\* step, delta>> lowers every c = lo, lo + step, ... up to hi to c + delta
LowerRules ==
    <<  <<65,90,1,32>>, <<192,214,1,32>>, <<216,222,1,32>>, <<256,302,2,1>>,
        <<306,310,2,1>>, <<313,327,2,1>>, <<330,374,2,1>>, <<376,376,1,-121>>,
        <<377,381,2,1>>, <<385,385,1,210>>, <<386,388,2,1>>, <<390,390,1,206>>,
        <<391,391,1,1>>, <<393,394,1,205>>, <<395,395,1,1>>, <<398,398,1,79>>,
        <<399,399,1,202>>, <<400,400,1,203>>, <<401,401,1,1>>, <<403,403,1,205>>,
        <<404,404,1,207>>, <<406,406,1,211>>, <<407,407,1,209>>, <<408,408,1,1>>,
        <<412,412,1,211>>, <<413,413,1,213>>, <<415,415,1,214>>, <<416,420,2,1>>,
        <<422,422,1,218>>, <<423,423,1,1>>, <<425,425,1,218>>, <<428,428,1,1>>,
        <<430,430,1,218>>, <<431,431,1,1>>, <<433,434,1,217>>, <<435,437,2,1>>,
        <<439,439,1,219>>, <<440,440,1,1>>, <<444,444,1,1>>, <<452,452,1,2>>,
        <<453,453,1,1>>, <<455,455,1,2>>, <<456,456,1,1>>, <<458,458,1,2>>,
        <<459,475,2,1>>, <<478,494,2,1>>, <<497,497,1,2>>, <<498,500,2,1>>,
        <<502,502,1,-97>>, <<503,503,1,-56>>, <<504,542,2,1>>, <<544,544,1,-130>>,
        <<546,562,2,1>>, <<570,570,1,10795>>, <<571,571,1,1>>, <<573,573,1,-163>>,
        <<574,574,1,10792>>, <<577,577,1,1>>, <<579,579,1,-195>>, <<580,580,1,69>>,
        <<581,581,1,71>>, <<582,590,2,1>>, <<880,882,2,1>>, <<886,886,1,1>>,
        <<895,895,1,116>>, <<902,902,1,38>>, <<904,906,1,37>>, <<908,908,1,64>>,
        <<910,911,1,63>>, <<913,929,1,32>>, <<931,939,1,32>>, <<975,975,1,8>>,
        <<984,1006,2,1>>, <<1012,1012,1,-60>>, <<1015,1015,1,1>>,
        <<1017,1017,1,-7>>, <<1018,1018,1,1>>, <<1021,1023,1,-130>>,
        <<1024,1039,1,80>>, <<1040,1071,1,32>>, <<1120,1152,2,1>>,
        <<1162,1214,2,1>>, <<1216,1216,1,15>>, <<1217,1229,2,1>>, <<1232,1326,2,1>>,
        <<1329,1366,1,48>>, <<4256,4293,1,7264>>, <<4295,4295,1,7264>>,
        <<4301,4301,1,7264>>, <<5024,5103,1,38864>>, <<5104,5109,1,8>>,
        <<7312,7354,1,-3008>>, <<7357,7359,1,-3008>>, <<7680,7828,2,1>>,
        <<7838,7838,1,-7615>>, <<7840,7934,2,1>>, <<7944,7951,1,-8>>,
        <<7960,7965,1,-8>>, <<7976,7983,1,-8>>, <<7992,7999,1,-8>>,
        <<8008,8013,1,-8>>, <<8025,8031,2,-8>>, <<8040,8047,1,-8>>,
        <<8072,8079,1,-8>>, <<8088,8095,1,-8>>, <<8104,8111,1,-8>>,
        <<8120,8121,1,-8>>, <<8122,8123,1,-74>>, <<8124,8124,1,-9>>,
        <<8136,8139,1,-86>>, <<8140,8140,1,-9>>, <<8152,8153,1,-8>>,
        <<8154,8155,1,-100>>, <<8168,8169,1,-8>>, <<8170,8171,1,-112>>,
        <<8172,8172,1,-7>>, <<8184,8185,1,-128>>, <<8186,8187,1,-126>>,
        <<8188,8188,1,-9>>, <<8486,8486,1,-7517>>, <<8490,8490,1,-8383>>,
        <<8491,8491,1,-8262>>, <<8498,8498,1,28>>, <<8544,8559,1,16>>,
        <<8579,8579,1,1>>, <<9398,9423,1,26>>, <<11264,11311,1,48>>,
        <<11360,11360,1,1>>, <<11362,11362,1,-10743>>, <<11363,11363,1,-3814>>,
        <<11364,11364,1,-10727>>, <<11367,11371,2,1>>, <<11373,11373,1,-10780>>,
        <<11374,11374,1,-10749>>, <<11375,11375,1,-10783>>,
        <<11376,11376,1,-10782>>, <<11378,11378,1,1>>, <<11381,11381,1,1>>,
        <<11390,11391,1,-10815>>, <<11392,11490,2,1>>, <<11499,11501,2,1>>,
        <<11506,11506,1,1>>, <<42560,42604,2,1>>, <<42624,42650,2,1>>,
        <<42786,42798,2,1>>, <<42802,42862,2,1>>, <<42873,42875,2,1>>,
        <<42877,42877,1,-35332>>, <<42878,42886,2,1>>, <<42891,42891,1,1>>,
        <<42893,42893,1,-42280>>, <<42896,42898,2,1>>, <<42902,42920,2,1>>,
        <<42922,42922,1,-42308>>, <<42923,42923,1,-42319>>,
        <<42924,42924,1,-42315>>, <<42925,42925,1,-42305>>,
        <<42926,42926,1,-42308>>, <<42928,42928,1,-42258>>,
        <<42929,42929,1,-42282>>, <<42930,42930,1,-42261>>, <<42931,42931,1,928>>,
        <<42932,42946,2,1>>, <<42948,42948,1,-48>>, <<42949,42949,1,-42307>>,
        <<42950,42950,1,-35384>>, <<42951,42953,2,1>>, <<42960,42960,1,1>>,
        <<42966,42968,2,1>>, <<42997,42997,1,1>>, <<65313,65338,1,32>>,
        <<66560,66599,1,40>>, <<66736,66771,1,40>>, <<66928,66938,1,39>>,
        <<66940,66954,1,39>>, <<66956,66962,1,39>>, <<66964,66965,1,39>>,
        <<68736,68786,1,64>>, <<71840,71871,1,32>>, <<93760,93791,1,32>>,
        <<125184,125217,1,34>>  >>

\* the ranges <<lo, hi>> of the case-ignorable characters and of the cased
\* characters, which decide the lowercase form of the capital sigma
CaseIgnorableRanges ==
    <<  <<39,39>>, <<46,46>>, <<58,58>>, <<94,94>>, <<96,96>>, <<168,168>>,
        <<173,173>>, <<175,175>>, <<180,180>>, <<183,184>>, <<688,879>>,
        <<884,885>>, <<890,890>>, <<900,901>>, <<903,903>>, <<1155,1161>>,
        <<1369,1369>>, <<1375,1375>>, <<1425,1469>>, <<1471,1471>>, <<1473,1474>>,
        <<1476,1477>>, <<1479,1479>>, <<1524,1524>>, <<1536,1541>>, <<1552,1562>>,
        <<1564,1564>>, <<1600,1600>>, <<1611,1631>>, <<1648,1648>>, <<1750,1757>>,
        <<1759,1768>>, <<1770,1773>>, <<1807,1807>>, <<1809,1809>>, <<1840,1866>>,
        <<1958,1968>>, <<2027,2037>>, <<2042,2042>>, <<2045,2045>>, <<2070,2093>>,
        <<2137,2139>>, <<2184,2184>>, <<2192,2193>>, <<2200,2207>>, <<2249,2306>>,
        <<2362,2362>>, <<2364,2364>>, <<2369,2376>>, <<2381,2381>>, <<2385,2391>>,
        <<2402,2403>>, <<2417,2417>>, <<2433,2433>>, <<2492,2492>>, <<2497,2500>>,
        <<2509,2509>>, <<2530,2531>>, <<2558,2558>>, <<2561,2562>>, <<2620,2620>>,
        <<2625,2626>>, <<2631,2632>>, <<2635,2637>>, <<2641,2641>>, <<2672,2673>>,
        <<2677,2677>>, <<2689,2690>>, <<2748,2748>>, <<2753,2757>>, <<2759,2760>>,
        <<2765,2765>>, <<2786,2787>>, <<2810,2815>>, <<2817,2817>>, <<2876,2876>>,
        <<2879,2879>>, <<2881,2884>>, <<2893,2893>>, <<2901,2902>>, <<2914,2915>>,
        <<2946,2946>>, <<3008,3008>>, <<3021,3021>>, <<3072,3072>>, <<3076,3076>>,
        <<3132,3132>>, <<3134,3136>>, <<3142,3144>>, <<3146,3149>>, <<3157,3158>>,
        <<3170,3171>>, <<3201,3201>>, <<3260,3260>>, <<3263,3263>>, <<3270,3270>>,
        <<3276,3277>>, <<3298,3299>>, <<3328,3329>>, <<3387,3388>>, <<3393,3396>>,
        <<3405,3405>>, <<3426,3427>>, <<3457,3457>>, <<3530,3530>>, <<3538,3540>>,
        <<3542,3542>>, <<3633,3633>>, <<3636,3642>>, <<3654,3662>>, <<3761,3761>>,
        <<3764,3772>>, <<3782,3782>>, <<3784,3789>>, <<3864,3865>>, <<3893,3893>>,
        <<3895,3895>>, <<3897,3897>>, <<3953,3966>>, <<3968,3972>>, <<3974,3975>>,
        <<3981,3991>>, <<3993,4028>>, <<4038,4038>>, <<4141,4144>>, <<4146,4151>>,
        <<4153,4154>>, <<4157,4158>>, <<4184,4185>>, <<4190,4192>>, <<4209,4212>>,
        <<4226,4226>>, <<4229,4230>>, <<4237,4237>>, <<4253,4253>>, <<4348,4348>>,
        <<4957,4959>>, <<5906,5908>>, <<5938,5939>>, <<5970,5971>>, <<6002,6003>>,
        <<6068,6069>>, <<6071,6077>>, <<6086,6086>>, <<6089,6099>>, <<6103,6103>>,
        <<6109,6109>>, <<6155,6159>>, <<6211,6211>>, <<6277,6278>>, <<6313,6313>>,
        <<6432,6434>>, <<6439,6440>>, <<6450,6450>>, <<6457,6459>>, <<6679,6680>>,
        <<6683,6683>>, <<6742,6742>>, <<6744,6750>>, <<6752,6752>>, <<6754,6754>>,
        <<6757,6764>>, <<6771,6780>>, <<6783,6783>>, <<6823,6823>>, <<6832,6862>>,
        <<6912,6915>>, <<6964,6964>>, <<6966,6970>>, <<6972,6972>>, <<6978,6978>>,
        <<7019,7027>>, <<7040,7041>>, <<7074,7077>>, <<7080,7081>>, <<7083,7085>>,
        <<7142,7142>>, <<7144,7145>>, <<7149,7149>>, <<7151,7153>>, <<7212,7219>>,
        <<7222,7223>>, <<7288,7293>>, <<7376,7378>>, <<7380,7392>>, <<7394,7400>>,
        <<7405,7405>>, <<7412,7412>>, <<7416,7417>>, <<7468,7530>>, <<7544,7544>>,
        <<7579,7679>>, <<8125,8125>>, <<8127,8129>>, <<8141,8143>>, <<8157,8159>>,
        <<8173,8175>>, <<8189,8190>>, <<8203,8207>>, <<8216,8217>>, <<8228,8228>>,
        <<8231,8231>>, <<8234,8238>>, <<8288,8292>>, <<8294,8303>>, <<8305,8305>>,
        <<8319,8319>>, <<8336,8348>>, <<8400,8432>>, <<11388,11389>>,
        <<11503,11505>>, <<11631,11631>>, <<11647,11647>>, <<11744,11775>>,
        <<11823,11823>>, <<12293,12293>>, <<12330,12333>>, <<12337,12341>>,
        <<12347,12347>>, <<12441,12446>>, <<12540,12542>>, <<40981,40981>>,
        <<42232,42237>>, <<42508,42508>>, <<42607,42610>>, <<42612,42621>>,
        <<42623,42623>>, <<42652,42655>>, <<42736,42737>>, <<42752,42785>>,
        <<42864,42864>>, <<42888,42890>>, <<42994,42996>>, <<43000,43001>>,
        <<43010,43010>>, <<43014,43014>>, <<43019,43019>>, <<43045,43046>>,
        <<43052,43052>>, <<43204,43205>>, <<43232,43249>>, <<43263,43263>>,
        <<43302,43309>>, <<43335,43345>>, <<43392,43394>>, <<43443,43443>>,
        <<43446,43449>>, <<43452,43453>>, <<43471,43471>>, <<43493,43494>>,
        <<43561,43566>>, <<43569,43570>>, <<43573,43574>>, <<43587,43587>>,
        <<43596,43596>>, <<43632,43632>>, <<43644,43644>>, <<43696,43696>>,
        <<43698,43700>>, <<43703,43704>>, <<43710,43711>>, <<43713,43713>>,
        <<43741,43741>>, <<43756,43757>>, <<43763,43764>>, <<43766,43766>>,
        <<43867,43871>>, <<43881,43883>>, <<44005,44005>>, <<44008,44008>>,
        <<44013,44013>>, <<64286,64286>>, <<64434,64450>>, <<65024,65039>>,
        <<65043,65043>>, <<65056,65071>>, <<65106,65106>>, <<65109,65109>>,
        <<65279,65279>>, <<65287,65287>>, <<65294,65294>>, <<65306,65306>>,
        <<65342,65342>>, <<65344,65344>>, <<65392,65392>>, <<65438,65439>>,
        <<65507,65507>>, <<65529,65531>>, <<66045,66045>>, <<66272,66272>>,
        <<66422,66426>>, <<67456,67461>>, <<67463,67504>>, <<67506,67514>>,
        <<68097,68099>>, <<68101,68102>>, <<68108,68111>>, <<68152,68154>>,
        <<68159,68159>>, <<68325,68326>>, <<68900,68903>>, <<69291,69292>>,
        <<69446,69456>>, <<69506,69509>>, <<69633,69633>>, <<69688,69702>>,
        <<69744,69744>>, <<69747,69748>>, <<69759,69761>>, <<69811,69814>>,
        <<69817,69818>>, <<69821,69821>>, <<69826,69826>>, <<69837,69837>>,
        <<69888,69890>>, <<69927,69931>>, <<69933,69940>>, <<70003,70003>>,
        <<70016,70017>>, <<70070,70078>>, <<70089,70092>>, <<70095,70095>>,
        <<70191,70193>>, <<70196,70196>>, <<70198,70199>>, <<70206,70206>>,
        <<70367,70367>>, <<70371,70378>>, <<70400,70401>>, <<70459,70460>>,
        <<70464,70464>>, <<70502,70508>>, <<70512,70516>>, <<70712,70719>>,
        <<70722,70724>>, <<70726,70726>>, <<70750,70750>>, <<70835,70840>>,
        <<70842,70842>>, <<70847,70848>>, <<70850,70851>>, <<71090,71093>>,
        <<71100,71101>>, <<71103,71104>>, <<71132,71133>>, <<71219,71226>>,
        <<71229,71229>>, <<71231,71232>>, <<71339,71339>>, <<71341,71341>>,
        <<71344,71349>>, <<71351,71351>>, <<71453,71455>>, <<71458,71461>>,
        <<71463,71467>>, <<71727,71735>>, <<71737,71738>>, <<71995,71996>>,
        <<71998,71998>>, <<72003,72003>>, <<72148,72151>>, <<72154,72155>>,
        <<72160,72160>>, <<72193,72202>>, <<72243,72248>>, <<72251,72254>>,
        <<72263,72263>>, <<72273,72278>>, <<72281,72283>>, <<72330,72342>>,
        <<72344,72345>>, <<72752,72758>>, <<72760,72765>>, <<72767,72767>>,
        <<72850,72871>>, <<72874,72880>>, <<72882,72883>>, <<72885,72886>>,
        <<73009,73014>>, <<73018,73018>>, <<73020,73021>>, <<73023,73029>>,
        <<73031,73031>>, <<73104,73105>>, <<73109,73109>>, <<73111,73111>>,
        <<73459,73460>>, <<78896,78904>>, <<92912,92916>>, <<92976,92982>>,
        <<92992,92995>>, <<94031,94031>>, <<94095,94111>>, <<94176,94177>>,
        <<94179,94180>>, <<110576,110579>>, <<110581,110587>>, <<110589,110590>>,
        <<113821,113822>>, <<113824,113827>>, <<118528,118573>>, <<118576,118598>>,
        <<119143,119145>>, <<119155,119170>>, <<119173,119179>>, <<119210,119213>>,
        <<119362,119364>>, <<121344,121398>>, <<121403,121452>>, <<121461,121461>>,
        <<121476,121476>>, <<121499,121503>>, <<121505,121519>>, <<122880,122886>>,
        <<122888,122904>>, <<122907,122913>>, <<122915,122916>>, <<122918,122922>>,
        <<123184,123197>>, <<123566,123566>>, <<123628,123631>>, <<125136,125142>>,
        <<125252,125259>>, <<127995,127999>>, <<917505,917505>>, <<917536,917631>>,
        <<917760,917999>>  >>

CasedRanges ==
    <<  <<65,90>>, <<97,122>>, <<170,170>>, <<181,181>>, <<186,186>>, <<192,214>>,
        <<216,246>>, <<248,442>>, <<444,447>>, <<452,659>>, <<661,696>>,
        <<704,705>>, <<736,740>>, <<837,837>>, <<880,883>>, <<886,887>>,
        <<890,893>>, <<895,895>>, <<902,902>>, <<904,906>>, <<908,908>>,
        <<910,929>>, <<931,1013>>, <<1015,1153>>, <<1162,1327>>, <<1329,1366>>,
        <<1376,1416>>, <<4256,4293>>, <<4295,4295>>, <<4301,4301>>, <<4304,4346>>,
        <<4349,4351>>, <<5024,5109>>, <<5112,5117>>, <<7296,7304>>, <<7312,7354>>,
        <<7357,7359>>, <<7424,7615>>, <<7680,7957>>, <<7960,7965>>, <<7968,8005>>,
        <<8008,8013>>, <<8016,8023>>, <<8025,8025>>, <<8027,8027>>, <<8029,8029>>,
        <<8031,8061>>, <<8064,8116>>, <<8118,8124>>, <<8126,8126>>, <<8130,8132>>,
        <<8134,8140>>, <<8144,8147>>, <<8150,8155>>, <<8160,8172>>, <<8178,8180>>,
        <<8182,8188>>, <<8305,8305>>, <<8319,8319>>, <<8336,8348>>, <<8450,8450>>,
        <<8455,8455>>, <<8458,8467>>, <<8469,8469>>, <<8473,8477>>, <<8484,8484>>,
        <<8486,8486>>, <<8488,8488>>, <<8490,8493>>, <<8495,8500>>, <<8505,8505>>,
        <<8508,8511>>, <<8517,8521>>, <<8526,8526>>, <<8544,8575>>, <<8579,8580>>,
        <<9398,9449>>, <<11264,11492>>, <<11499,11502>>, <<11506,11507>>,
        <<11520,11557>>, <<11559,11559>>, <<11565,11565>>, <<42560,42605>>,
        <<42624,42653>>, <<42786,42887>>, <<42891,42894>>, <<42896,42954>>,
        <<42960,42961>>, <<42963,42963>>, <<42965,42969>>, <<42997,42998>>,
        <<43000,43002>>, <<43824,43866>>, <<43868,43880>>, <<43888,43967>>,
        <<64256,64262>>, <<64275,64279>>, <<65313,65338>>, <<65345,65370>>,
        <<66560,66639>>, <<66736,66771>>, <<66776,66811>>, <<66928,66938>>,
        <<66940,66954>>, <<66956,66962>>, <<66964,66965>>, <<66967,66977>>,
        <<66979,66993>>, <<66995,67001>>, <<67003,67004>>, <<67456,67456>>,
        <<67459,67461>>, <<67463,67504>>, <<67506,67514>>, <<68736,68786>>,
        <<68800,68850>>, <<71840,71903>>, <<93760,93823>>, <<119808,119892>>,
        <<119894,119964>>, <<119966,119967>>, <<119970,119970>>, <<119973,119974>>,
        <<119977,119980>>, <<119982,119993>>, <<119995,119995>>, <<119997,120003>>,
        <<120005,120069>>, <<120071,120074>>, <<120077,120084>>, <<120086,120092>>,
        <<120094,120121>>, <<120123,120126>>, <<120128,120132>>, <<120134,120134>>,
        <<120138,120144>>, <<120146,120485>>, <<120488,120512>>, <<120514,120538>>,
        <<120540,120570>>, <<120572,120596>>, <<120598,120628>>, <<120630,120654>>,
        <<120656,120686>>, <<120688,120712>>, <<120714,120744>>, <<120746,120770>>,
        <<120772,120779>>, <<122624,122633>>, <<122635,122654>>, <<125184,125251>>,
        <<127280,127305>>, <<127312,127337>>, <<127344,127369>>  >>

InRanges(c, ranges) == \E i \in DOMAIN ranges : ranges[i][1] <= c /\ c <= ranges[i][2]
CaseIgnorable(c) == InRanges(c, CaseIgnorableRanges)
Cased(c) == InRanges(c, CasedRanges)

\* the characters request texts are drawn from
Chars == {97, 66, 49, 32}

\* the sequences over S of length at most n
SeqsUpTo(S, n) == UNION {[1..k -> S] : k \in 0..n}

Texts == SeqsUpTo(Chars, MaxTextLen)

Abs(x) == IF x < 0 THEN -x ELSE x
Rat(n, d) == [num |-> n, den |-> d]
RatEq(a, b) == a.num * b.den = b.num * a.den
RatLeq(a, b) == a.num * b.den <= b.num * a.den

\* str.lower() on one character, out of context: the characters it
\* becomes.  Only U+0130 becomes two (i, U+0307).
LowerChar(c) ==
    IF c < 128 THEN (IF c \in UpperLetters THEN <<c + 32>> ELSE <<c>>)
    ELSE IF c = 304 THEN <<105, 775>>
    ELSE LET R == {i \in DOMAIN LowerRules :
                      /\ LowerRules[i][1] <= c /\ c <= LowerRules[i][2]
                      /\ (c - LowerRules[i][1]) % LowerRules[i][3] = 0}
         IN IF R = {} THEN <<c>> ELSE <<c + LowerRules[CHOOSE i \in R : TRUE][4]>>

\* the capital sigma U+03A3 at t[i] is final: a cased character precedes it
\* and none follows, case-ignorable characters skipped on both sides
FinalSigma(t, i) ==
    /\ \E j \in 1..(i - 1) :
          /\ ~CaseIgnorable(t[j]) /\ Cased(t[j])
          /\ \A k \in (j + 1)..(i - 1) : CaseIgnorable(t[k])
    /\ ~\E j \in (i + 1)..Len(t) :
          /\ ~CaseIgnorable(t[j]) /\ Cased(t[j])
          /\ \A k \in (i + 1)..(j - 1) : CaseIgnorable(t[k])

\* str.lower()
RECURSIVE LowerFrom(_, _)
LowerFrom(t, i) ==
    IF i > Len(t) THEN <<>>
    ELSE (IF t[i] = 931 THEN (IF FinalSigma(t, i) THEN <<962>> ELSE <<963>>)
          ELSE LowerChar(t[i])) \o LowerFrom(t, i + 1)

Lower(t) == LowerFrom(t, 1)

\* str.strip(): drop leading and trailing whitespace
RECURSIVE Strip(_)
Strip(t) ==
    IF t = <<>> THEN <<>>
    ELSE IF t[1] \in Whitespace THEN Strip(Tail(t))
    ELSE IF t[Len(t)] \in Whitespace THEN Strip(SubSeq(t, 1, Len(t) - 1))
    ELSE t

\* re.sub(r'[^...]', '', t): keep only the characters of the class
RECURSIVE KeepOnly(_, _)
KeepOnly(t, class) ==
    IF t = <<>> THEN <<>>
    ELSE IF t[1] \in class THEN <<t[1]>> \o KeepOnly(Tail(t), class)
    ELSE KeepOnly(Tail(t), class)

\* str.split(): maximal runs of non-whitespace, in order
RECURSIVE SplitFrom(_, _, _)
SplitFrom(t, i, cur) ==
    IF i > Len(t) THEN (IF cur = <<>> THEN <<>> ELSE <<cur>>)
    ELSE IF t[i] \in Whitespace
         THEN (IF cur = <<>> THEN <<>> ELSE <<cur>>) \o SplitFrom(t, i + 1, <<>>)
         ELSE SplitFrom(t, i + 1, Append(cur, t[i]))

Split(t) == SplitFrom(t, 1, <<>>)

clean_text(text) == Split(KeepOnly(Lower(text), LettersAndWhitespace))

SetOf(s) == {s[i] : i \in DOMAIN s}

char_similarity(t1, t2) ==
    LET c1 == KeepOnly(Lower(t1), LowerLetters)
        c2 == KeepOnly(Lower(t2), LowerLetters)
        set1 == SetOf(c1)
        set2 == SetOf(c2)
        common_chars == Cardinality(set1 \cap set2)
        total_chars == Cardinality(set1 \cup set2)
    IN IF c1 = <<>> \/ c2 = <<>> THEN Rat(0, 1)
       ELSE IF total_chars > 0 THEN Rat(common_chars, total_chars) ELSE Rat(0, 1)

jaccard_simNoEmptyCase(w1, w2) ==
    LET set1 == SetOf(w1)
        set2 == SetOf(w2)
        union == Cardinality(set1 \cup set2)
    IN IF union > 0 THEN Rat(Cardinality(set1 \cap set2), union) ELSE Rat(0, 1)

jaccard_sim(w1, w2) ==
    LET set1 == SetOf(w1)
        set2 == SetOf(w2)
        intersection == Cardinality(set1 \cap set2)
        union == Cardinality(set1 \cup set2)
    IN IF set1 = {} /\ set2 = {} THEN Rat(1, 1)
       ELSE IF union > 0 THEN Rat(intersection, union) ELSE Rat(0, 1)

word_overlapFirstOnly(w1, w2) ==
    LET set1 == SetOf(w1)
        set2 == SetOf(w2)
        shared == Cardinality(set1 \cap set2)
        total == Cardinality(set1)
    IN IF set1 = {} /\ set2 = {} THEN Rat(100, 1)
       ELSE IF total > 0 THEN Rat(shared * 2 * 100, total) ELSE Rat(0, 1)

word_overlap(w1, w2) ==
    LET set1 == SetOf(w1)
        set2 == SetOf(w2)
        shared == Cardinality(set1 \cap set2)
        total == Cardinality(set1) + Cardinality(set2)
    IN IF set1 = {} /\ set2 = {} THEN Rat(100, 1)
       ELSE IF total > 0 THEN Rat(shared * 2 * 100, total) ELSE Rat(0, 1)

\* TfidfVectorizer(analyzer='char'): lowercase, then every run of two or
\* more whitespace characters becomes one space
RECURSIVE CollapseWhitespace(_)
CollapseWhitespace(t) ==
    IF Len(t) < 2 THEN t
    ELSE IF t[1] \in Whitespace /\ t[2] \in Whitespace
         THEN IF Len(t) >= 3 /\ t[3] \in Whitespace
              THEN CollapseWhitespace(Tail(t))
              ELSE <<32>> \o CollapseWhitespace(SubSeq(t, 3, Len(t)))
         ELSE <<t[1]>> \o CollapseWhitespace(Tail(t))

\* the character n-grams of ngram_range=(1, 3), with repetitions
CharNgrams(t) ==
    LET d == CollapseWhitespace(Lower(t))
    IN [n \in 1..3 |-> [i \in 1..(IF Len(d) >= n THEN Len(d) - n + 1 ELSE 0) |->
                            SubSeq(d, i, i + n - 1)]]

\* term frequency of n-gram g in the n-grams gs
Tf(g, gs) == Cardinality({i \in DOMAIN gs[Len(g)] : gs[Len(g)][i] = g})
Vocabulary(gs) == UNION {SetOf(gs[n]) : n \in 1..3}

RECURSIVE SumOver(_, _, _, _)
SumOver(S, ga, gb, both) ==
    IF S = {} THEN 0
    ELSE LET g == CHOOSE x \in S : TRUE
         IN (IF both THEN Tf(g, ga) * Tf(g, gb) ELSE Tf(g, ga) * Tf(g, ga))
            + SumOver(S \ {g}, ga, gb, both)

\* cosine_sim: [failed, dot, shared1, unique1, shared2, unique2].  With two
\* documents an n-gram of both has idf 1 and an n-gram of one has idf
\* w = 1 + ln(3/2); the returned float is
\*   dot / sqrt((shared1 + w*w*unique1) * (shared2 + w*w*unique2)),
\* 0.0 when dot = 0, and 0.0 when the vectorizer raises (empty vocabulary).
cosine_sim(t1, t2) ==
    LET g1 == CharNgrams(t1)
        g2 == CharNgrams(t2)
        v1 == Vocabulary(g1)
        v2 == Vocabulary(g2)
    IN IF v1 \cup v2 = {}
       THEN [failed |-> TRUE, dot |-> 0, shared1 |-> 0, unique1 |-> 0,
             shared2 |-> 0, unique2 |-> 0]
       ELSE [failed |-> FALSE,
             dot |-> SumOver(v1 \cap v2, g1, g2, TRUE),
             shared1 |-> SumOver(v1 \cap v2, g1, g1, FALSE),
             unique1 |-> SumOver(v1 \ v2, g1, g1, FALSE),
             shared2 |-> SumOver(v1 \cap v2, g2, g2, FALSE),
             unique2 |-> SumOver(v2 \ v1, g2, g2, FALSE)]

\* ordering of Python strings: by code point, a prefix first
RECURSIVE StrLeq(_, _)
StrLeq(u, v) ==
    IF u = <<>> THEN TRUE
    ELSE IF v = <<>> THEN FALSE
    ELSE IF u[1] = v[1] THEN StrLeq(Tail(u), Tail(v))
    ELSE u[1] < v[1]

RECURSIVE sorted(_)
sorted(S) ==
    IF S = {} THEN <<>>
    ELSE LET m == CHOOSE x \in S : \A y \in S : StrLeq(x, y)
         IN <<m>> \o sorted(S \ {m})


\* ------------------------------------------------- oracle reply lexemes
LB == "{"
RB == "}"
LBRACK == "["
RBRACK == "]"
COLON == ":"
COMMA == ","
NUM == "0.8"
INT == "1"
TRUE_LIT == "true"
NULL_LIT == "null"
STR_SS == "\"semantic_similarity\""
STR_OTHER == "\"high\""
STR_NUM == "\"0.8\""
STR_INSIGHTS == "\"insights\""
STR_THEMES1 == "\"themes_text1\""
STR_THEMES2 == "\"themes_text2\""
STR_DIFF == "\"key_differences\""
STR_STYLE == "\"writing_style_comparison\""
WORD == "similar"

\* the lexemes every reply up to MaxReplyLen is built from
Lexemes == {LB, RB, COLON, NUM, STR_SS, STR_OTHER, STR_NUM, WORD}

\* string literals and the Python strings they denote
StringTable ==
    <<  <<STR_SS, "semantic_similarity">>, <<STR_OTHER, "high">>, <<STR_NUM, "0.8">>,
        <<STR_INSIGHTS, "insights">>, <<STR_THEMES1, "themes_text1">>,
        <<STR_THEMES2, "themes_text2">>, <<STR_DIFF, "key_differences">>,
        <<STR_STYLE, "writing_style_comparison">>  >>
StringLexemes == {StringTable[i][1] : i \in DOMAIN StringTable}
StringOf(lex) == StringTable[CHOOSE i \in DOMAIN StringTable : StringTable[i][1] = lex][2]

\* longer replies: the object the prompt asks for, a repeated key, the other
\* JSON value kinds under semantic_similarity, a trailing comma
FullReply ==
    <<WORD, LB, STR_SS, COLON, NUM, COMMA, STR_INSIGHTS, COLON, STR_OTHER, COMMA,
      STR_THEMES1, COLON, LBRACK, STR_OTHER, COMMA, STR_OTHER, RBRACK, COMMA,
      STR_THEMES2, COLON, LBRACK, RBRACK, COMMA, STR_DIFF, COLON, STR_OTHER, COMMA,
      STR_STYLE, COLON, STR_OTHER, RB, WORD>>
LongReplies ==
    {FullReply,
     <<LB, STR_SS, COLON, STR_OTHER, COMMA, STR_SS, COLON, STR_NUM, RB>>,
     <<LB, STR_SS, COLON, NUM, COMMA, STR_SS, COLON, STR_OTHER, RB>>,
     <<LB, STR_SS, COLON, INT, RB>>,
     <<LB, STR_SS, COLON, TRUE_LIT, RB>>,
     <<LB, STR_SS, COLON, NULL_LIT, RB>>,
     <<LB, STR_SS, COLON, LBRACK, NUM, RBRACK, RB>>,
     <<LB, STR_SS, COLON, LB, RB, RB>>,
     <<LB, STR_SS, COLON, NUM, COMMA, RB>>,
     <<LB, STR_OTHER, COLON, LBRACK, NUM, COMMA, RBRACK, RB>>,
     <<LB, STR_INSIGHTS, COLON, STR_OTHER, RB, COMMA, LB, RB>>}

Replies == SeqsUpTo(Lexemes, MaxReplyLen)

\* Python values of the analysis dict, tagged with their type
PyFloat(r) == [t |-> "float", v |-> r]
PyStr(s) == [t |-> "str", v |-> s]
PyList(l) == [t |-> "list", v |-> l]
PyDict(d) == [t |-> "dict", v |-> d]
PyInt(n) == [t |-> "int", v |-> n]
PyBool(b) == [t |-> "bool", v |-> b]
PyNone == [t |-> "NoneType", v |-> <<>>]
EmptyDict == [k \in {} |-> PyStr(<<>>)]
DictSet(d, key, val) == [k \in (DOMAIN d) \cup {key} |-> IF k = key THEN val ELSE d[k]]

\* str.find / str.rfind, 0-based, -1 when absent
Find(s, lex) ==
    IF \E i \in DOMAIN s : s[i] = lex
    THEN (CHOOSE i \in DOMAIN s : s[i] = lex /\ \A j \in 1..(i - 1) : s[j] # lex) - 1
    ELSE -1

RFind(s, lex) ==
    IF \E i \in DOMAIN s : s[i] = lex
    THEN (CHOOSE i \in DOMAIN s : s[i] = lex /\ \A j \in (i + 1)..Len(s) : s[j] # lex) - 1
    ELSE -1

\* s[start:end] for 0 <= start, 0 <= end <= len(s)
Slice(s, start, end) == SubSeq(s, start + 1, end)

\* json.loads: recursive descent; a result is [ok, next, val]
ParseFail == [ok |-> FALSE, next |-> 0, val |-> PyStr(<<>>)]
ParseOk(n, v) == [ok |-> TRUE, next |-> n, val |-> v]

RECURSIVE ParseValue(_, _)
RECURSIVE ParseMembers(_, _, _)
RECURSIVE ParseElements(_, _, _)
ParseElements(toks, i, acc) ==
    LET r == ParseValue(toks, i)
    IN IF ~r.ok \/ r.next > Len(toks) THEN ParseFail
       ELSE IF toks[r.next] = RBRACK THEN ParseOk(r.next + 1, PyList(Append(acc, r.val)))
       ELSE IF toks[r.next] = COMMA THEN ParseElements(toks, r.next + 1, Append(acc, r.val))
       ELSE ParseFail

ParseMembers(toks, i, acc) ==
    IF i + 2 > Len(toks) \/ toks[i] \notin StringLexemes \/ toks[i + 1] # COLON
    THEN ParseFail
    ELSE LET r == ParseValue(toks, i + 2)
         IN IF ~r.ok \/ r.next > Len(toks) THEN ParseFail
            ELSE LET acc2 == DictSet(acc, StringOf(toks[i]), r.val)
                 IN IF toks[r.next] = RB THEN ParseOk(r.next + 1, PyDict(acc2))
                    ELSE IF toks[r.next] = COMMA THEN ParseMembers(toks, r.next + 1, acc2)
                    ELSE ParseFail

ParseValue(toks, i) ==
    IF i > Len(toks) THEN ParseFail
    ELSE IF toks[i] = NUM THEN ParseOk(i + 1, PyFloat(Rat(4, 5)))
    ELSE IF toks[i] = INT THEN ParseOk(i + 1, PyInt(1))
    ELSE IF toks[i] = TRUE_LIT THEN ParseOk(i + 1, PyBool(TRUE))
    ELSE IF toks[i] = NULL_LIT THEN ParseOk(i + 1, PyNone)
    ELSE IF toks[i] = LBRACK
         THEN IF i + 1 <= Len(toks) /\ toks[i + 1] = RBRACK
              THEN ParseOk(i + 2, PyList(<<>>))
              ELSE ParseElements(toks, i + 1, <<>>)
    ELSE IF toks[i] \in StringLexemes THEN ParseOk(i + 1, PyStr(<<StringOf(toks[i])>>))
    ELSE IF toks[i] = LB
         THEN IF i + 1 <= Len(toks) /\ toks[i + 1] = RB
              THEN ParseOk(i + 2, PyDict(EmptyDict))
              ELSE ParseMembers(toks, i + 1, EmptyDict)
    ELSE ParseFail

\* json.loads(json_str): [exc, val]; exc is "none" or "JSONDecodeError"
JsonLoads(toks) ==
    LET r == ParseValue(toks, 1)
    IN IF r.ok /\ r.next = Len(toks) + 1
       THEN [exc |-> "none", val |-> r.val]
       ELSE [exc |-> "JSONDecodeError", val |-> PyStr(<<>>)]

\* float(x): [exc, val].  A float stays, an int or bool converts, a str
\* converts when it spells a number ("0.8" among the strings of the replies)
\* and raises ValueError otherwise, None, a list or a dict raises TypeError.
ToFloat(x) ==
    IF x.t = "float" THEN [exc |-> "none", val |-> x]
    ELSE IF x.t = "int" THEN [exc |-> "none", val |-> PyFloat(Rat(x.v, 1))]
    ELSE IF x.t = "bool"
         THEN [exc |-> "none", val |-> PyFloat(Rat(IF x.v THEN 1 ELSE 0, 1))]
    ELSE IF x.t = "str"
         THEN IF x.v = <<"0.8">> THEN [exc |-> "none", val |-> PyFloat(Rat(4, 5))]
              ELSE [exc |-> "ValueError", val |-> x]
    ELSE [exc |-> "TypeError", val |-> x]

AnalysisFields == {"semantic_similarity", "insights", "themes_text1", "themes_text2",
                   "key_differences", "writing_style_comparison"}

NoAnalysisMessage == <<"Unable to generate AI analysis. Please check your API key and internet connection.">>

\* a response text is [none, text]: None, or a str
NoneText == [none |-> TRUE, text |-> <<>>]
SomeText(t) == [none |-> FALSE, text |-> t]
Truthy(rt) == ~rt.none /\ rt.text # <<>>

FallbackAnalysisZero(rt) ==
    [semantic_similarity |-> PyFloat(Rat(0, 1)),
     insights |-> PyStr(NoAnalysisMessage),
     themes_text1 |-> PyList(<<PyStr(<<"General content">>)>>),
     themes_text2 |-> PyList(<<PyStr(<<"General content">>)>>),
     key_differences |-> PyStr(<<"Analysis could not be completed">>),
     writing_style_comparison |-> PyStr(<<"Unable to compare writing styles">>)]

FallbackAnalysis(rt) ==
    [semantic_similarity |-> PyFloat(Rat(1, 2)),
     insights |-> PyStr(IF Truthy(rt) THEN rt.text ELSE NoAnalysisMessage),
     themes_text1 |-> PyList(<<PyStr(<<"General content">>)>>),
     themes_text2 |-> PyList(<<PyStr(<<"General content">>)>>),
     key_differences |-> PyStr(<<"Analysis could not be completed">>),
     writing_style_comparison |-> PyStr(<<"Unable to compare writing styles">>)]

ErrorAnalysis(exc) ==
    [semantic_similarity |-> PyFloat(Rat(0, 1)),
     insights |-> PyStr(<<"Gemini analysis unavailable: ", exc>>),
     themes_text1 |-> PyList(<<PyStr(<<"Analysis unavailable">>)>>),
     themes_text2 |-> PyList(<<PyStr(<<"Analysis unavailable">>)>>),
     key_differences |-> PyStr(<<"Gemini API error">>),
     writing_style_comparison |-> PyStr(<<"Unable to analyze due to API error">>)]

\* the body of the outer try of gemini_similarity_analysis, after the call:
\* [exc, val], exc the exception that leaves the body ("none" when it returns)
AnalysisBody(rt) ==
    LET start == Find(rt.text, LB)
        end == RFind(rt.text, RB) + 1
        loaded == JsonLoads(Slice(rt.text, start, end))
        parsed == loaded.val.v
        coerced == ToFloat(parsed["semantic_similarity"])
    IN IF Truthy(rt) /\ start # -1 /\ end # 0
       THEN IF loaded.exc # "none" THEN [exc |-> "none", val |-> FallbackAnalysis(rt)]
            ELSE IF "semantic_similarity" \in DOMAIN parsed
                 THEN IF coerced.exc # "none"
                      THEN [exc |-> coerced.exc, val |-> parsed]
                      ELSE [exc |-> "none",
                            val |-> DictSet(parsed, "semantic_similarity", coerced.val)]
                 ELSE [exc |-> "none", val |-> parsed]
       ELSE [exc |-> "none", val |-> FallbackAnalysis(rt)]

\* gemini_similarity_analysis given what call_gemini_api returned:
\* [raised, val]; raised when an exception reaches compare()
gemini_similarity_analysisNoOuterCatch(rt) ==
    LET body == AnalysisBody(rt)
    IN [raised |-> body.exc # "none", val |-> body.val]

gemini_similarity_analysis(rt) ==
    LET body == AnalysisBody(rt)
    IN IF body.exc = "none" THEN [raised |-> FALSE, val |-> body.val]
       ELSE [raised |-> FALSE, val |-> ErrorAnalysis(body.exc)]

NoSuggestionsMessage == <<"No suggestions available. Please check your API key.">>

gemini_improvement_suggestions(rt) ==
    IF Truthy(rt) THEN rt.text ELSE NoSuggestionsMessage


\* --------------------------------------------- the provider's HTTP answer
\* An outcome of requests.post: it raises (transport failure, timeout), or
\* returns a response with a status code and a body; dict membership tests
\* on the decoded body are the has_ flags.
Part(hasText, t) == [has_text |-> hasText, text |-> t]
Content(hasParts, parts) == [has_parts |-> hasParts, parts |-> parts]
Candidate(hasContent, content) == [has_content |-> hasContent, content |-> content]
Body(hasCandidates, candidates) == [has_candidates |-> hasCandidates, candidates |-> candidates]
NoContent == Content(FALSE, <<>>)
NoBody == Body(FALSE, <<>>)
Outcome(raises, status, jsonOk, body) ==
    [raises |-> raises, status_code |-> status, json_ok |-> jsonOk, data |-> body]

TransportError == Outcome(TRUE, 0, FALSE, NoBody)
TextOutcome(t) ==
    Outcome(FALSE, 200, TRUE, Body(TRUE, <<Candidate(TRUE, Content(TRUE, <<Part(TRUE, t)>>))>>))

FailureOutcomes ==
    {TransportError,
     Outcome(FALSE, 500, TRUE, NoBody),
     Outcome(FALSE, 429, FALSE, NoBody),
     Outcome(FALSE, 200, FALSE, NoBody),
     Outcome(FALSE, 200, TRUE, NoBody),
     Outcome(FALSE, 200, TRUE, Body(TRUE, <<>>)),
     Outcome(FALSE, 200, TRUE, Body(TRUE, <<Candidate(FALSE, NoContent)>>)),
     Outcome(FALSE, 200, TRUE, Body(TRUE, <<Candidate(TRUE, NoContent)>>)),
     Outcome(FALSE, 200, TRUE, Body(TRUE, <<Candidate(TRUE, Content(TRUE, <<>>))>>)),
     Outcome(FALSE, 200, TRUE,
             Body(TRUE, <<Candidate(TRUE, Content(TRUE, <<Part(FALSE, <<>>)>>))>>))}

AllOutcomes == FailureOutcomes \cup {TextOutcome(t) : t \in Replies \cup LongReplies}
FewOutcomes == {TransportError, TextOutcome(<<WORD>>)}

\* `not GEMINI_API_KEY`: the variable is None (unset) or the empty string
NotConfiguredNoneOnly(key) == ~key.set

NotConfigured(key) == ~key.set \/ key.value = ""

\* call_gemini_api from requests.post on: what it returns for an outcome
ApiResult(o) ==
    IF o.raises THEN NoneText
    ELSE IF o.status_code = 200
         THEN IF ~o.json_ok THEN NoneText
              ELSE IF o.data.has_candidates /\ Len(o.data.candidates) > 0
                   THEN LET c == o.data.candidates[1]
                        IN IF c.has_content /\ c.content.has_parts
                           THEN IF Len(c.content.parts) = 0 THEN NoneText
                                ELSE IF ~c.content.parts[1].has_text THEN NoneText
                                ELSE SomeText(c.content.parts[1].text)
                           ELSE NoneText
                   ELSE NoneText
         ELSE NoneText

\* ------------------------------------------------------------- requests
Request(h1, a, h2, b) ==
    [has_text1 |-> h1, text1 |-> IF h1 THEN a ELSE <<>>,
     has_text2 |-> h2, text2 |-> IF h2 THEN b ELSE <<>>]

AllRequests == {Request(h1, a, h2, b) : h1 \in BOOLEAN, h2 \in BOOLEAN, a \in Texts, b \in Texts}

FewRequests ==
    {Request(TRUE, <<97>>, TRUE, <<66>>),
     Request(TRUE, <<32>>, TRUE, <<97>>),
     Request(FALSE, <<>>, TRUE, <<97>>)}

\* requests with whitespace other than the space and with letters outside
\* ASCII: form feed; "\va\fB" + U+00A0 and "b  a"; the Kelvin sign; U+0130
\* and "i"; U+00C9 and U+00E9; "a" + U+00C9 twice; capital alpha + capital
\* sigma and alpha + final sigma; "a'" + capital sigma + "b" and "a'"
OtherRequests ==
    {Request(TRUE, <<12>>, TRUE, <<97>>),
     Request(TRUE, <<11, 97, 12, 66, 160>>, TRUE, <<98, 32, 32, 97>>),
     Request(TRUE, <<8490>>, TRUE, <<8490>>),
     Request(TRUE, <<304>>, TRUE, <<105>>),
     Request(TRUE, <<201>>, TRUE, <<233>>),
     Request(TRUE, <<97, 201>>, TRUE, <<97, 201>>),
     Request(TRUE, <<913, 931>>, TRUE, <<945, 962>>),
     Request(TRUE, <<97, 39, 931, 98>>, TRUE, <<97, 39, 931>>)}

Unset == [set |-> FALSE, value |-> ""]
Keys == {Unset, [set |-> TRUE, value |-> ""], [set |-> TRUE, value |-> "AIza"]}

\* data.get('text1', '').strip()
GetText1(d) == Strip(IF d.has_text1 THEN d.text1 ELSE <<>>)
GetText2(d) == Strip(IF d.has_text2 THEN d.text2 ELSE <<>>)

InvalidInputBoth(t1, t2) == t1 = <<>> /\ t2 = <<>>

InvalidInput(t1, t2) == t1 = <<>> \/ t2 = <<>>

edit_distanceRaw(t1, t2) == Abs(Len(data.text1) - Len(data.text2))

edit_distance(t1, t2) == Abs(Len(t1) - Len(t2))

unique_wordsNoDifference(w1, w2) == sorted(SetOf(w1))

unique_words(w1, w2) == sorted(SetOf(w1) \ SetOf(w2))

ZeroSimilarities ==
    [cosine_similarity |-> [failed |-> FALSE, dot |-> 0, shared1 |-> 0, unique1 |-> 0,
                            shared2 |-> 0, unique2 |-> 0],
     jaccard_index |-> Rat(0, 1), word_overlap |-> Rat(0, 1),
     character_similarity |-> Rat(0, 1), edit_distance |-> 0]

InitWith(reqs, keys) ==
    /\ pc = "validate"
    /\ GEMINI_API_KEY \in keys
    /\ data \in reqs
    /\ text1 = <<>>
    /\ text2 = <<>>
    /\ words1 = <<>>
    /\ words2 = <<>>
    /\ shared_words = <<>>
    /\ unique1 = <<>>
    /\ unique2 = <<>>
    /\ similarities = ZeroSimilarities
    /\ response_text = NoneText
    /\ gemini_analysis = EmptyDict
    /\ improvement_suggestions = <<>>
    /\ response = [status |-> 0, body |-> EmptyDict]
    /\ requests = 0
    /\ metricCalls = 0

\* compare(): read and trim the two texts, reject an empty one with 400
Validate ==
    /\ pc = "validate"
    /\ text1' = GetText1(data)
    /\ text2' = GetText2(data)
    /\ IF InvalidInput(text1', text2')
       THEN /\ response' = [status |-> 400, body |-> [error |-> "Please enter both texts"]]
            /\ pc' = "done"
       ELSE /\ pc' = "metrics"
            /\ UNCHANGED response
    /\ UNCHANGED <<GEMINI_API_KEY, data, words1, words2, shared_words, unique1, unique2,
                   similarities, response_text, gemini_analysis, improvement_suggestions,
                   requests, metricCalls>>

\* compare(): word lists, word diff and the similarities dict
ComputeMetrics ==
    /\ pc = "metrics"
    /\ words1' = clean_text(text1)
    /\ words2' = clean_text(text2)
    /\ shared_words' = sorted(SetOf(words1') \cap SetOf(words2'))
    /\ unique1' = unique_words(words1', words2')
    /\ unique2' = unique_words(words2', words1')
    /\ similarities' = [cosine_similarity |-> cosine_sim(text1, text2),
                        jaccard_index |-> jaccard_sim(words1', words2'),
                        word_overlap |-> word_overlap(words1', words2'),
                        character_similarity |-> char_similarity(text1, text2),
                        edit_distance |-> edit_distance(text1, text2)]
    /\ metricCalls' = metricCalls + 1
    /\ pc' = "analysis"
    /\ UNCHANGED <<GEMINI_API_KEY, data, text1, text2, response_text, gemini_analysis,
                   improvement_suggestions, response, requests>>

\* gemini_similarity_analysis once call_gemini_api has returned rt
AnalysisReturns(rt) ==
    LET r == gemini_similarity_analysis(rt)
    IN /\ response_text' = rt
       /\ IF r.raised
          THEN /\ response' = [status |-> 500, body |-> [error |-> "Internal Server Error"]]
               /\ pc' = "done"
               /\ UNCHANGED gemini_analysis
          ELSE /\ gemini_analysis' = r.val
               /\ pc' = "suggest"
               /\ UNCHANGED response

\* gemini_similarity_analysis up to requests.post: without a key
\* call_gemini_api returns None at once, otherwise the request goes out
GeminiAnalysisCall ==
    /\ pc = "analysis"
    /\ IF NotConfigured(GEMINI_API_KEY)
       THEN /\ AnalysisReturns(NoneText)
            /\ UNCHANGED requests
       ELSE /\ requests' = requests + 1
            /\ pc' = "analysis_wait"
            /\ UNCHANGED <<response_text, gemini_analysis, response>>
    /\ UNCHANGED <<GEMINI_API_KEY, data, text1, text2, words1, words2, shared_words,
                   unique1, unique2, similarities, improvement_suggestions, metricCalls>>

\* requests.post ends (answer, failure or the 30 s timeout) and
\* gemini_similarity_analysis runs to its return
GeminiAnalysisReceive(outcomes) ==
    /\ pc = "analysis_wait"
    /\ \E o \in outcomes : AnalysisReturns(ApiResult(o))
    /\ UNCHANGED <<GEMINI_API_KEY, data, text1, text2, words1, words2, shared_words,
                   unique1, unique2, similarities, improvement_suggestions, requests,
                   metricCalls>>

SuggestionsCall ==
    /\ pc = "suggest"
    /\ IF NotConfigured(GEMINI_API_KEY)
       THEN /\ improvement_suggestions' = gemini_improvement_suggestions(NoneText)
            /\ pc' = "respond"
            /\ UNCHANGED requests
       ELSE /\ requests' = requests + 1
            /\ pc' = "suggest_wait"
            /\ UNCHANGED improvement_suggestions
    /\ UNCHANGED <<GEMINI_API_KEY, data, text1, text2, words1, words2, shared_words,
                   unique1, unique2, similarities, response_text, gemini_analysis,
                   response, metricCalls>>

SuggestionsReceive(outcomes) ==
    /\ pc = "suggest_wait"
    /\ \E o \in outcomes :
          improvement_suggestions' = gemini_improvement_suggestions(ApiResult(o))
    /\ pc' = "respond"
    /\ UNCHANGED <<GEMINI_API_KEY, data, text1, text2, words1, words2, shared_words,
                   unique1, unique2, similarities, response_text, gemini_analysis,
                   response, requests, metricCalls>>

\* compare(): build the result and return it with status 200
Respond ==
    /\ pc = "respond"
    /\ response' =
          [status |-> 200,
           body |-> [cosine_similarity |-> similarities.cosine_similarity,
                     jaccard_index |-> similarities.jaccard_index,
                     word_overlap |-> similarities.word_overlap,
                     character_similarity |-> similarities.character_similarity,
                     edit_distance |-> similarities.edit_distance,
                     shared_words |-> shared_words,
                     unique_text1 |-> unique1,
                     unique_text2 |-> unique2,
                     stats |-> [text1_words |-> Len(words1),
                                text2_words |-> Len(words2),
                                text1_chars |-> Len(text1),
                                text2_chars |-> Len(text2),
                                total_unique_words |->
                                    Cardinality(SetOf(words1) \cup SetOf(words2))],
                     gemini_analysis |-> gemini_analysis,
                     improvement_suggestions |-> improvement_suggestions]]
    /\ pc' = "done"
    /\ UNCHANGED <<GEMINI_API_KEY, data, text1, text2, words1, words2, shared_words,
                   unique1, unique2, similarities, response_text, gemini_analysis,
                   improvement_suggestions, requests, metricCalls>>

\* The oracle specification: a few requests, every key state, every reply
InitOracle == InitWith(FewRequests, Keys)

NextOracle ==
    \/ Validate
    \/ ComputeMetrics
    \/ GeminiAnalysisCall
    \/ GeminiAnalysisReceive(AllOutcomes)
    \/ SuggestionsCall
    \/ SuggestionsReceive(FewOutcomes)
    \/ Respond

SpecOracle == InitOracle /\ [][NextOracle]_vars

\* The metrics specification: every request; the oracle is reached only
\* for the few requests, with a few outcomes
Init == InitOracle \/ InitWith(AllRequests \cup OtherRequests, {Unset})

Next ==
    \/ Validate
    \/ ComputeMetrics
    \/ GeminiAnalysisCall
    \/ GeminiAnalysisReceive(FewOutcomes)
    \/ SuggestionsCall
    \/ SuggestionsReceive(FewOutcomes)
    \/ Respond

Spec == Init /\ [][Next]_vars


\* ================================================================ claims
Accepted == Strip(data.text1) # <<>> /\ Strip(data.text2) # <<>>
             /\ data.has_text1 /\ data.has_text2
Reported == pc = "done" /\ response.status = 200
AnalysisReturned == pc \in {"suggest", "suggest_wait", "respond"} \/ Reported
MetricsComputed == pc \notin {"validate", "metrics"} /\ response.status # 400
CredentialAbsent == ~GEMINI_API_KEY.set \/ GEMINI_API_KEY.value = ""
IsOne(r) == r.num = r.den
IsZero(r) == r.num = 0
InUnit(r) == 0 <= r.num /\ r.num <= r.den /\ r.den > 0
HasLetter(t) == \E i \in DOMAIN Lower(t) : Lower(t)[i] \in LowerLetters

\* C1: a request with two texts non-empty after trimming always ends in a
\* 200 report carrying gemini_analysis and improvement_suggestions, whatever
\* the oracle did; it never ends in a server error.
C1_OracleNeverFails ==
    /\ response.status # 500
    /\ (pc = "done" /\ Accepted) =>
          /\ response.status = 200
          /\ {"gemini_analysis", "improvement_suggestions"} \subseteq DOMAIN response.body

\* C1 witness: the oracle answered a JSON object whose semantic_similarity is
\* not a number, and the request still ended with 200.
C1_Witness ==
    /\ Reported
    /\ response_text = SomeText(<<LB, STR_SS, COLON, STR_OTHER, RB>>)
    /\ "gemini_analysis" \in DOMAIN response.body

\* C2: every value gemini_similarity_analysis returns carries all six fields.
C2_SameShape == AnalysisReturned => AnalysisFields \subseteq DOMAIN gemini_analysis

EmbeddedObject(t) == Find(t, LB) # -1 /\ RFind(t, RB) # -1
Embedded(t) == JsonLoads(Slice(t, Find(t, LB), RFind(t, RB) + 1))
FieldAbsent(t) ==
    Embedded(t).exc = "none" /\ "semantic_similarity" \notin DOMAIN Embedded(t).val.v
NotCoercible(t) ==
    /\ Embedded(t).exc = "none"
    /\ "semantic_similarity" \in DOMAIN Embedded(t).val.v
    /\ ToFloat(Embedded(t).val.v["semantic_similarity"]).exc # "none"
IsStep4Fallback(d, t) ==
    /\ AnalysisFields \subseteq DOMAIN d
    /\ d.semantic_similarity.t = "float"
    /\ RatEq(d.semantic_similarity.v, Rat(1, 2))
    /\ d.insights.t = "str"
    /\ d.insights.v = t

\* C3: a reply with an embedded JSON object that lacks semantic_similarity,
\* or that cannot be decoded or coerced to a float, yields the step-4
\* fallback: semantic_similarity 0.5 and the raw reply as insights.
C3_FallThrough ==
    (/\ AnalysisReturned
     /\ Truthy(response_text)
     /\ EmbeddedObject(response_text.text)
     /\ \/ FieldAbsent(response_text.text)
        \/ Embedded(response_text.text).exc # "none"
        \/ NotCoercible(response_text.text))
    => IsStep4Fallback(gemini_analysis, response_text.text)

NonJsonProse(t) == ~EmbeddedObject(t) \/ Embedded(t).exc # "none"
GeneralContent(x) ==
    x.t = "list" /\ Len(x.v) = 1 /\ x.v[1].t = "str" /\ x.v[1].v = <<"General content">>

\* C4: a non-empty reply that is not JSON (no brace pair, or the text between
\* the first "{" and the last "}" does not decode) yields the fallback with
\* semantic_similarity 0.5, the raw reply as insights and both theme lists
\* ["General content"].
C4_ProseFallback ==
    (AnalysisReturned /\ Truthy(response_text) /\ NonJsonProse(response_text.text))
    => /\ IsStep4Fallback(gemini_analysis, response_text.text)
       /\ GeneralContent(gemini_analysis.themes_text1)
       /\ GeneralContent(gemini_analysis.themes_text2)

\* C4 witness: a reply with a brace pair around prose came back as fallback.
C4_Witness ==
    /\ AnalysisReturned
    /\ response_text = SomeText(<<WORD, LB, WORD, RB>>)
    /\ IsStep4Fallback(gemini_analysis, <<WORD, LB, WORD, RB>>)

\* C5: without a credential no request goes out; with one, each oracle
\* operation sends exactly one request and never retries, so a request to
\* compare() sends at most two.
C5_RequestCount ==
    /\ requests <= 2
    /\ CredentialAbsent => requests = 0
    /\ pc \in {"validate", "metrics", "analysis"} => requests = 0
    /\ ~CredentialAbsent =>
          /\ pc \in {"analysis_wait", "suggest"} => requests = 1
          /\ pc \in {"suggest_wait", "respond"} => requests = 2
          /\ Reported => requests = 2

\* C5 witness: both requests failed and the report was still sent after
\* exactly two requests.
C5_Witness ==
    /\ Reported
    /\ requests = 2
    /\ response_text.none
    /\ improvement_suggestions = NoSuggestionsMessage

\* C6: a request with a text missing or empty after trimming ends with 400
\* and an error body; no metric, word diff or oracle request happens.
C6_InvalidRejected ==
    ~Accepted =>
       /\ pc \in {"validate", "done"}
       /\ metricCalls = 0
       /\ requests = 0
       /\ similarities = ZeroSimilarities
       /\ shared_words = <<>> /\ unique1 = <<>> /\ unique2 = <<>>
       /\ pc = "done" => (response.status = 400 /\ DOMAIN response.body = {"error"})

\* C6 witness: a whitespace-only text1 next to a real text2 was rejected.
C6_Witness ==
    /\ pc = "done"
    /\ response.status = 400
    /\ data.has_text1 /\ data.text1 = <<32>>
    /\ data.has_text2 /\ Strip(data.text2) # <<>>

\* C7 (as stated): edit_distance is the length difference of the texts as
\* supplied, whitespace at the ends included.
C7_RawLength ==
    Reported => response.body.edit_distance = Abs(Len(data.text1) - Len(data.text2))

\* C7 (amended): edit_distance is the length difference of the two texts
\* after trimming leading and trailing whitespace.
C7_TrimmedLength ==
    Reported =>
       response.body.edit_distance = Abs(Len(Strip(data.text1)) - Len(Strip(data.text2)))

\* C7 witness: a text with whitespace at an end was reported.
C7_Witness ==
    /\ Reported
    /\ data.text1 = <<32, 97, 49>>
    /\ data.text2 = <<97>>
    /\ response.body.edit_distance = 1

\* C8 (as stated): identical non-empty texts give jaccard_index 1.0,
\* word_overlap 100.0 and character_similarity 1.0.
C8_IdenticalAllOne ==
    (Reported /\ data.text1 = data.text2) =>
       /\ IsOne(response.body.jaccard_index)
       /\ RatEq(response.body.word_overlap, Rat(100, 1))
       /\ IsOne(response.body.character_similarity)

\* C8 (amended): identical non-empty texts give jaccard_index 1.0 and
\* word_overlap 100.0; character_similarity is 1.0 when the text holds a
\* letter and 0.0 when it holds none.
C8_IdenticalLetters ==
    (Reported /\ data.text1 = data.text2) =>
       /\ IsOne(response.body.jaccard_index)
       /\ RatEq(response.body.word_overlap, Rat(100, 1))
       /\ IF HasLetter(data.text1)
          THEN IsOne(response.body.character_similarity)
          ELSE IsZero(response.body.character_similarity)

\* C8 witness: two identical texts without a letter were reported.
C8_Witness ==
    /\ Reported
    /\ data.text1 = data.text2
    /\ ~HasLetter(data.text1)
    /\ IsZero(response.body.character_similarity)

SymmetricOn(a, b) ==
    LET wa == clean_text(a)
        wb == clean_text(b)
    IN /\ RatEq(char_similarity(a, b), char_similarity(b, a))
       /\ RatEq(jaccard_sim(wa, wb), jaccard_sim(wb, wa))
       /\ RatEq(word_overlap(wa, wb), word_overlap(wb, wa))
RangesOn(a, b) ==
    LET wa == clean_text(a)
        wb == clean_text(b)
    IN /\ InUnit(char_similarity(a, b))
       /\ InUnit(jaccard_sim(wa, wb))
       /\ RatLeq(Rat(0, 1), word_overlap(wa, wb))
       /\ RatLeq(word_overlap(wa, wb), Rat(100, 1))

\* C9: character_similarity and jaccard_index lie in [0, 1], word_overlap in
\* [0, 100], and each is unchanged when the two texts are swapped; for the
\* values compare() computed and for the functions on the texts as supplied
\* (empty ones included).
C9_RangeAndSymmetry ==
    /\ pc = "validate" => (RangesOn(data.text1, data.text2) /\ SymmetricOn(data.text1, data.text2))
    /\ MetricsComputed =>
          /\ InUnit(similarities.character_similarity)
          /\ InUnit(similarities.jaccard_index)
          /\ RatLeq(Rat(0, 1), similarities.word_overlap)
          /\ RatLeq(similarities.word_overlap, Rat(100, 1))
          /\ RatEq(similarities.character_similarity, char_similarity(text2, text1))
          /\ RatEq(similarities.jaccard_index, jaccard_sim(words2, words1))
          /\ RatEq(similarities.word_overlap, word_overlap(words2, words1))

\* C9 witness: text1 cleaned to nothing, text2 did not, metrics computed.
C9_Witness ==
    /\ MetricsComputed
    /\ words1 = <<>>
    /\ Len(words2) = 2
    /\ IsZero(similarities.jaccard_index)
    /\ IsZero(similarities.word_overlap)

Ascending(s) == \A i \in DOMAIN s : \A j \in DOMAIN s : i < j => (StrLeq(s[i], s[j]) /\ s[i] # s[j])

\* C10: in a report the three word lists are pairwise disjoint, each sorted
\* ascending without duplicates, together exactly words1 \cup words2;
\* total_unique_words is the sum of their lengths; shared_words is empty
\* exactly when jaccard_index is 0.0 or both word sets are empty.
C10_WordDiff ==
    Reported =>
       LET b == response.body
           sh == SetOf(b.shared_words)
           u1 == SetOf(b.unique_text1)
           u2 == SetOf(b.unique_text2)
       IN /\ sh \cap u1 = {} /\ sh \cap u2 = {} /\ u1 \cap u2 = {}
          /\ Ascending(b.shared_words) /\ Ascending(b.unique_text1) /\ Ascending(b.unique_text2)
          /\ sh \cup u1 \cup u2 = SetOf(words1) \cup SetOf(words2)
          /\ b.stats.total_unique_words
                = Len(b.shared_words) + Len(b.unique_text1) + Len(b.unique_text2)
          /\ (b.shared_words = <<>>) <=>
                (IsZero(b.jaccard_index) \/ (words1 = <<>> /\ words2 = <<>>))

\* C10 witness: two shared words that sorting had to reorder.
C10_Witness ==
    /\ Reported
    /\ words1 = << <<98>>, <<97>> >>
    /\ response.body.shared_words = << <<97>>, <<98>> >>

====
